---- MODULE Spec2Model ----
(***************************************************************************)
(* A model of app.py: a Telegram webhook that plans a reply with a         *)
(* language model (call_gpt), optionally searches a WooCommerce catalog    *)
(* (search_products), formats the products (format_products) and sends one *)
(* reply (on_message).                                                     *)
(*                                                                         *)
(* JSON values are tagged records.  A Python string is a sequence of       *)
(* glyphs (one-character strings; a fixed message of the program is one    *)
(* opaque glyph).  A Python call that may raise returns Raise or Ok(v).    *)
(***************************************************************************)
EXTENDS Integers, Sequences, FiniteSets, TLC

----------------------------------------------------------------------------
(* JSON values and the Python operations the program applies to them.      *)

JNull == [t |-> "null"]
JBool(b) == [t |-> "bool", b |-> b]
JNum(n) == [t |-> "num", n |-> n]
JStr(s) == [t |-> "str", s |-> s]
JList(l) == [t |-> "list", l |-> l]
JObj(o) == [t |-> "obj", o |-> o]

EmptyObj == JObj(<<>>)
EmptyStr == JStr(<<>>)

Raise == [exc |-> TRUE]
Ok(v) == [exc |-> FALSE, val |-> v]

IsStr(j) == j.t = "str"
IsObj(j) == j.t = "obj"
IsList(j) == j.t = "list"

\* bool(j): Python truthiness.
Truthy(j) ==
    CASE j.t = "null" -> FALSE
      [] j.t = "bool" -> j.b
      [] j.t = "num" -> j.n # 0
      [] j.t = "str" -> Len(j.s) > 0
      [] j.t = "list" -> Len(j.l) > 0
      [] j.t = "obj" -> DOMAIN j.o # {}

\* a or b
PyOr(a, b) == IF Truthy(a) THEN a ELSE b

\* d.get(k, default) on a dict d.
Get(d, k, default) == IF k \in DOMAIN d.o THEN d.o[k] ELSE default

\* The keys of a dict as strings (each key one opaque glyph), in some order.
RECURSIVE KeySeq(_)
KeySeq(ks) ==
    IF ks = {} THEN <<>>
    ELSE LET k == CHOOSE x \in ks : TRUE
         IN <<JStr(<<k>>)>> \o KeySeq(ks \ {k})

\* for x in j: a list yields its elements, a string its characters, a dict
\* its keys; anything else is not iterable (TypeError).
Iterate(j) ==
    CASE j.t = "list" -> Ok(j.l)
      [] j.t = "str" -> Ok([i \in 1..Len(j.s) |-> JStr(<<j.s[i]>>)])
      [] j.t = "obj" -> Ok(KeySeq(DOMAIN j.o))
      [] OTHER -> Raise

\* j[0]: a list's or string's first element (IndexError when empty); a dict
\* decoded from JSON has only string keys (KeyError); others: TypeError.
First(j) ==
    CASE j.t = "list" /\ Len(j.l) > 0 -> Ok(j.l[1])
      [] j.t = "str" /\ Len(j.s) > 0 -> Ok(JStr(<<j.s[1]>>))
      [] OTHER -> Raise

----------------------------------------------------------------------------
(* Strings.                                                                *)

Whitespace == {" ", "\n"}

RECURSIVE LStrip(_)
LStrip(s) == IF Len(s) > 0 /\ Head(s) \in Whitespace THEN LStrip(Tail(s)) ELSE s

RECURSIVE RStrip(_)
RStrip(s) ==
    IF Len(s) > 0 /\ s[Len(s)] \in Whitespace
    THEN RStrip(SubSeq(s, 1, Len(s) - 1)) ELSE s

\* str.strip()
Strip(s) == RStrip(LStrip(s))

\* sep.join(ss)
RECURSIVE Join(_, _)
Join(sep, ss) ==
    IF ss = <<>> THEN <<>>
    ELSE IF Len(ss) = 1 THEN ss[1]
    ELSE ss[1] \o sep \o Join(sep, Tail(ss))

\* [x for x in ss if x] for strings
RECURSIVE NonEmpty(_)
NonEmpty(ss) ==
    IF ss = <<>> THEN <<>>
    ELSE IF Head(ss) = <<>> THEN NonEmpty(Tail(ss))
    ELSE <<Head(ss)>> \o NonEmpty(Tail(ss))

Upper == <<"A", "B", "C", "D", "N", "R">>
Lower == <<"a", "b", "c", "d", "n", "r">>

LowerGlyph(c) ==
    IF \E i \in 1..Len(Upper) : Upper[i] = c
    THEN Lower[CHOOSE i \in 1..Len(Upper) : Upper[i] = c]
    ELSE c

\* str.lower()
ToLower(s) == [i \in 1..Len(s) |-> LowerGlyph(s[i])]

\* safe_text(s): (s or "").strip(); a truthy value that is no string has no
\* .strip (AttributeError).
safe_text(s) ==
    LET v == PyOr(s, EmptyStr)
    IN IF IsStr(v) THEN Ok(Strip(v.s)) ELSE Raise

----------------------------------------------------------------------------
(* Price presentation.                                                     *)

PRICE_DIVISOR == 10
CURRENCY_LABEL == <<"[toman]">>
THOUSANDS_SEP == "[sep]"

Digits == <<"0", "1", "2", "3", "4", "5", "6", "7", "8", "9">>

IsDigit(c) == \E i \in 1..10 : Digits[i] = c
DigitVal(c) == (CHOOSE i \in 1..10 : Digits[i] = c) - 1

RECURSIVE ParseNat(_)
ParseNat(s) ==
    IF Len(s) = 0 THEN 0
    ELSE 10 * ParseNat(SubSeq(s, 1, Len(s) - 1)) + DigitVal(s[Len(s)])

RECURSIVE NatToStr(_)
NatToStr(n) ==
    IF n < 10 THEN <<Digits[n + 1]>>
    ELSE NatToStr(n \div 10) \o <<Digits[(n % 10) + 1]>>

\* The digits of |i| in groups of three, after the sign.
RECURSIVE Grouped(_)
Grouped(ds) ==
    IF Len(ds) <= 3 THEN ds
    ELSE Grouped(SubSeq(ds, 1, Len(ds) - 3)) \o <<THOUSANDS_SEP>>
         \o SubSeq(ds, Len(ds) - 2, Len(ds))

IntToStr(i) == IF i < 0 THEN <<"-">> \o NatToStr(-i) ELSE NatToStr(i)

\* float(raw): a number, a bool, or a string of digits (surrounding
\* whitespace allowed); the model's numbers are the integers.
ToFloat(raw) ==
    CASE raw.t = "num" -> Ok(raw.n)
      [] raw.t = "bool" -> Ok(IF raw.b THEN 1 ELSE 0)
      [] raw.t = "str" /\ Len(Strip(raw.s)) > 0
           /\ (\A i \in 1..Len(Strip(raw.s)) : IsDigit(Strip(raw.s)[i]))
           -> Ok(ParseNat(Strip(raw.s)))
      [] OTHER -> Raise

\* int(round(n / d)): Python rounds halves to the even neighbour.
RoundDiv(n, d) ==
    LET q == n \div d
        r == n % d
    IN IF 2 * r < d THEN q
       ELSE IF 2 * r > d THEN q + 1
       ELSE IF q % 2 = 0 THEN q ELSE q + 1

\* add_thousands_sep(n / d): f"{i:,}" of the rounded quotient, the commas
\* replaced by the Persian separator.
add_thousands_sep(n, d) ==
    LET i == RoundDiv(n, d)
    IN IF i < 0 THEN <<"-">> \o Grouped(NatToStr(-i)) ELSE Grouped(NatToStr(i))

\* str(v) inside an f-string
PyStr(v) ==
    CASE v.t = "str" -> v.s
      [] v.t = "num" -> IntToStr(v.n)
      [] v.t = "null" -> <<"None">>
      [] OTHER -> <<"[repr]">>

to_toman(raw_price) ==
    IF raw_price \in {JNull, EmptyStr, JStr(<<"0">>)}
    THEN <<"0", " ">> \o CURRENCY_LABEL
    ELSE LET val == ToFloat(raw_price)
         IN IF val.exc
            THEN PyStr(raw_price) \o <<" ">> \o CURRENCY_LABEL
            ELSE add_thousands_sep(val.val, IF PRICE_DIVISOR # 0 THEN PRICE_DIVISOR ELSE 1)
                 \o <<" ">> \o CURRENCY_LABEL

----------------------------------------------------------------------------
(* Catalog query: search_products.                                         *)

RESULTS_LIMIT == 5
QueryMaxLen == 80
PerPageMax == 10

Min(a, b) == IF a < b THEN a ELSE b
Max(a, b) == IF a > b THEN a ELSE b

Letters == {"a", "b", "c", "d", "e", "h", "i", "k", "n", "o", "p", "r", "s", "t", "u", "y",
            "A", "B", "C", "D", "N", "P", "R"}
AllowedGlyphs == Letters \cup {Digits[i] : i \in 1..10} \cup Whitespace \cup {"-", "_"}

\* clean(s): every character outside the allowed classes becomes a blank.
clean(s) == [i \in 1..Len(s) |-> IF s[i] \in AllowedGlyphs THEN s[i] ELSE " "]

\* s[:n] for n >= 0
Prefix(s, n) == SubSeq(s, 1, Min(Len(s), n))

\* s[:n] for any integer n
Slice(s, n) == IF n >= 0 THEN Prefix(s, n) ELSE Prefix(s, Max(Len(s) + n, 0))

\* The request parameters search_products builds before the fetch.  A
\* criteria that is no dict raises at the membership test, at the index or
\* at .get; a truthy query that is no string raises in re.sub.
SearchParams(criteria, limit) ==
    LET base == [per_page |-> Min(Max(limit, 1), PerPageMax), status |-> "publish",
                 orderby |-> "relevance", order |-> "desc"]
    IN IF ~IsObj(criteria) THEN Raise
       ELSE LET q == Get(criteria, "query", JNull)
            IN IF Truthy(q) /\ ~IsStr(q) THEN Raise
               ELSE LET search == IF Truthy(q)
                                  THEN [search |-> Prefix(clean(q.s), QueryMaxLen)]
                                  ELSE <<>>
                        lo == IF Truthy(Get(criteria, "min_price", JNull))
                              THEN [min_price |-> criteria.o.min_price] ELSE <<>>
                        hi == IF Truthy(Get(criteria, "max_price", JNull))
                              THEN [max_price |-> criteria.o.max_price] ELSE <<>>
                    IN Ok(base @@ search @@ lo @@ hi)

InStock == JStr(<<"i", "n", "s", "t", "o", "c", "k">>)

\* (p.get("stock_quantity") or 0) > 0, a failed comparison counting as False
QuantityPositive(q) ==
    LET v == PyOr(q, JNum(0))
    IN CASE v.t = "num" -> v.n > 0
         [] v.t = "bool" -> v.b
         [] OTHER -> FALSE

is_in_stock(p) ==
    IF ~IsObj(p) THEN Raise
    ELSE IF Get(p, "stock_status", JNull) = InStock THEN Ok(TRUE)
    ELSE IF Truthy(Get(p, "manage_stock", JNull))
         THEN Ok(QuantityPositive(Get(p, "stock_quantity", JNull)))
    ELSE Ok(FALSE)

\* [p for p in items if is_in_stock(p)]
RECURSIVE KeepInStock(_)
KeepInStock(items) ==
    IF items = <<>> THEN <<>>
    ELSE IF is_in_stock(Head(items)).val THEN <<Head(items)>> \o KeepInStock(Tail(items))
    ELSE KeepInStock(Tail(items))

\* A text a peer returns: malformed, or the encoding of a JSON value.
Malformed == [valid |-> FALSE]
Encoded(v) == [valid |-> TRUE, value |-> v]

\* json.loads(t) of a lookup t that may itself have failed.
JsonLoads(t) == IF t.exc \/ ~t.val.valid THEN Raise ELSE Ok(t.val.value)

HttpErrorFrom == 400

\* wc_get: got is what requests.get did, Raise (no connection, timeout) or Ok
\* of a response [status, body]; raise_for_status raises on 4xx and 5xx,
\* r.json() on a body that is no JSON.
wc_get(got) ==
    IF got.exc THEN Raise
    ELSE IF got.val.status >= HttpErrorFrom THEN Raise
    ELSE JsonLoads(Ok(got.val.body))

\* search_products with no try around the fetch.
SearchResultUncaught(limit, fetched) ==
    IF fetched.exc THEN Raise
    ELSE LET it == Iterate(fetched.val)
         IN IF it.exc THEN Raise
            ELSE IF \E i \in 1..Len(it.val) : is_in_stock(it.val[i]).exc THEN Raise
            ELSE Ok(Slice(KeepInStock(it.val), limit))

\* search_products from the fetch on: fetched is what wc_get did.
SearchResult(limit, fetched) ==
    IF fetched.exc THEN Ok(<<>>)
    ELSE LET it == Iterate(fetched.val)
         IN IF it.exc THEN Raise
            ELSE IF \E i \in 1..Len(it.val) : is_in_stock(it.val[i]).exc THEN Raise
            ELSE Ok(Slice(KeepInStock(it.val), limit))

search_products(criteria, limit, got) ==
    IF SearchParams(criteria, limit).exc THEN Raise ELSE SearchResult(limit, wc_get(got))

----------------------------------------------------------------------------
(* Presentation: format_products.                                          *)

NothingFound == <<"[nothing-found]">>
Bullet == "[bullet]"
BrandNames == {<<"b", "r", "a", "n", "d">>, <<"[brand-fa]">>}

\* The brand the loop over p's attributes leaves: the try block of
\* format_products on the attributes still to visit.  Any exception ends
\* the loop with brand still "".
RECURSIVE ScanBrand(_)
ScanBrand(attrs) ==
    IF attrs = <<>> THEN EmptyStr
    ELSE LET attr == Head(attrs)
         IN IF ~IsObj(attr) THEN EmptyStr
            ELSE LET nm == Get(attr, "name", EmptyStr)
                 IN IF ~IsStr(nm) THEN EmptyStr
                    ELSE IF ToLower(nm.s) \in BrandNames
                              /\ Truthy(Get(attr, "options", JNull))
                         THEN LET b == First(attr.o.options)
                              IN IF b.exc THEN EmptyStr ELSE b.val
                    ELSE ScanBrand(Tail(attrs))

BrandOf(p) ==
    LET it == Iterate(Get(p, "attributes", JList(<<>>)))
    IN IF it.exc THEN EmptyStr ELSE ScanBrand(it.val)

\* One product's block, or Raise.
FormatLine(p) ==
    IF ~IsObj(p) THEN Raise
    ELSE LET name == safe_text(Get(p, "name", JNull))
             price == to_toman(PyOr(Get(p, "price", JNull), Get(p, "regular_price", JNull)))
             link == safe_text(PyOr(Get(p, "permalink", JNull), EmptyStr))
             sku == safe_text(PyOr(Get(p, "sku", JNull), EmptyStr))
             brand == BrandOf(p)
         IN IF name.exc \/ link.exc \/ sku.exc THEN Raise
            ELSE IF Truthy(brand) /\ ~IsStr(brand) THEN Raise
            ELSE LET skuPart == IF sku.val # <<>> THEN <<"S", "K", "U", ":", " ">> \o sku.val
                                ELSE <<>>
                     brandPart == IF Truthy(brand) THEN brand.s ELSE <<>>
                     meta == Join(<<" ", "|", " ">>, NonEmpty(<<brandPart, skuPart>>))
                 IN Ok(<<Bullet, " ", "<b>">> \o name.val \o <<"</b>", " ", "[dash]", " ">>
                       \o price
                       \o (IF meta # <<>> THEN <<" ", "|", " ">> \o meta ELSE <<>>)
                       \o <<"\n", "<a href='">> \o link.val \o <<"'>", "[view-buy]", "</a>">>)

format_products(products) ==
    IF products = <<>> THEN Ok(NothingFound)
    ELSE IF \E i \in 1..Len(products) : FormatLine(products[i]).exc THEN Raise
    ELSE Ok(Join(<<"\n", "\n">>, [i \in 1..Len(products) |-> FormatLine(products[i]).val]))

----------------------------------------------------------------------------
(* Planning: call_gpt.                                                     *)

ActionNone == JStr(<<"n", "o", "n", "e">>)
ActionSearch == JStr(<<"s", "e", "a", "r", "c", "h", "_", "p", "r", "o", "d", "u", "c", "t", "s">>)

UnconfiguredPlan == JObj([reply |-> JStr(<<"[ask-for-a-feature]">>), action |-> ActionNone])
DegradedPlan == JObj([reply |-> JStr(<<"[planning-problem-retry]">>), action |-> ActionNone])

\* The extraction of call_gpt: resp.output_text first, and only when that
\* raises resp.output[0].content[0].text; None when both raise.
ExtractJson(resp) ==
    LET a == JsonLoads(resp.output_text)
        b == JsonLoads(resp.content_text)
    IN IF ~a.exc THEN a.val ELSE IF ~b.exc THEN b.val ELSE JNull

\* call_gpt: has_client is the module's client being set, created what
\* client.responses.create did (Raise, or Ok of the response).
call_gpt(has_client, created) ==
    IF ~has_client THEN UnconfiguredPlan
    ELSE IF created.exc THEN DegradedPlan
    ELSE IF ~IsObj(ExtractJson(created.val)) THEN DegradedPlan
    ELSE ExtractJson(created.val)

----------------------------------------------------------------------------
(* Reply composition: the body of on_message.                              *)

ResultsHeader == <<"<b>", "[available-suggestions]", "</b>", "\n">>
NothingMatched == NothingFound \o <<" ", "[want-to-adjust?]">>
FallbackAck == <<"[message-received]">>

\* A test for "anything but none" in place of the test for the search action.
WantsSearchUnlessNone(plan) == Get(plan, "action", JNull) # ActionNone

\* plan.get("action") == "search_products"
WantsSearch(plan) == Get(plan, "action", JNull) = ActionSearch

\* plan.get("criteria", {}) or {}
CriteriaOf(plan) == PyOr(Get(plan, "criteria", EmptyObj), EmptyObj)

\* reply_parts[0]
FirstPart(plan) == safe_text(Get(plan, "reply", EmptyStr))

\* The formatted block appended whether or not anything was found.
ResultBlockAlways(products) ==
    LET f == format_products(products)
    IN IF f.exc THEN Raise ELSE Ok(ResultsHeader \o f.val)

\* The part appended after a search, or Raise.
ResultBlock(products) ==
    IF products # <<>>
    THEN LET f == format_products(products)
         IN IF f.exc THEN Raise ELSE Ok(ResultsHeader \o f.val)
    ELSE Ok(NothingMatched)

\* final_text
FinalText(parts) ==
    LET joined == Strip(Join(<<"\n", "\n">>, NonEmpty(parts)))
    IN IF joined # <<>> THEN joined ELSE FallbackAck

\* on_message up to msg.answer, run in one piece: the text it passes to
\* msg.answer, or Raise.  got is consulted only when a search is made.
on_message(has_client, created, got) ==
    LET plan == call_gpt(has_client, created)
        first == FirstPart(plan)
    IN IF first.exc THEN Raise
       ELSE IF ~WantsSearch(plan) THEN Ok(FinalText(<<first.val>>))
       ELSE LET products == search_products(CriteriaOf(plan), RESULTS_LIMIT, got)
            IN IF products.exc THEN Raise
               ELSE LET block == ResultBlock(products.val)
                    IN IF block.exc THEN Raise
                       ELSE Ok(FinalText(<<first.val, block.val>>))

----------------------------------------------------------------------------
(* The inputs: what the user, the inference provider and the catalog       *)
(* backend may send.                                                       *)

NumMsgs == 2
MaxItems == 3

Msgs == 1..NumMsgs

SeqsUpTo(S, n) == UNION {[1..k -> S] : k \in 0..n}

\* No entry, or an entry k with a value of vals.
Opt(k, vals) == {<<>>} \cup {[x \in {k} |-> v] : v \in vals}

Hi == JStr(<<"h", "i">>)
Texts == {JNull, Hi}

ReplyVals == {EmptyStr, JStr(<<" ">>), JStr(<<" ", "o", "k", "\n">>), Hi, JNum(5), JNull}
ActionVals == {ActionNone, ActionSearch, JStr(<<"b", "u", "y">>)}
Phone == JStr(<<"p", "h", "o", "n", "e">>)
PhoneQuery == JObj([query |-> JStr(<<"p", "h", "o", "n", "e", "!">>), max_price |-> JNum(5000000)])
CritVals == {JNull, EmptyObj, PhoneQuery, Phone, JObj([query |-> JNum(5)])}

PlanObjs ==
    {JObj(r @@ a @@ c) : r \in Opt("reply", ReplyVals), a \in Opt("action", ActionVals),
                         c \in Opt("criteria", CritVals)}

HelloPlan == JObj([reply |-> Hi, action |-> ActionNone])
SearchPlan == JObj([reply |-> JStr(<<" ", "o", "k", "\n">>), action |-> ActionSearch,
                    criteria |-> PhoneQuery])
BadReplyPlan == JObj([reply |-> JNum(5), action |-> ActionNone])

Response(a, b) == [output_text |-> a, content_text |-> b]

\* What client.responses.create may do.
Creations ==
    {Raise}
    \cup {Ok(Response(Ok(Encoded(v)), Raise)) : v \in PlanObjs \cup {JNull, JList(<<>>), Hi}}
    \cup {Ok(Response(a, b)) : a \in {Raise, Ok(Malformed)},
                               b \in {Raise, Ok(Malformed), Ok(Encoded(HelloPlan)),
                                      Ok(Encoded(JList(<<>>)))}}

SmallCreations ==
    {Raise} \cup {Ok(Response(Ok(Encoded(v)), Raise)) : v \in {HelloPlan, SearchPlan, BadReplyPlan}}

Str2(a, b) == JStr(<<a, b>>)
BrandAttr(o) == JObj([name |-> JStr(<<"B", "r", "a", "n", "d">>), options |-> o])

RGood ==
    JObj([name |-> Str2("A", "b"), price |-> JStr(<<"1", "2", "5", "0", "0", "0">>),
          permalink |-> Str2("u", "1"), sku |-> Str2("A", "1"), stock_status |-> InStock,
          attributes |-> JList(<<BrandAttr(JList(<<Str2("A", "c")>>))>>)])
ROut ==
    JObj([name |-> Str2("C", "d"), price |-> JStr(<<"9", "0">>), permalink |-> Str2("u", "2"),
          stock_status |-> Str2("n", "o"), manage_stock |-> JBool(FALSE)])
RManaged ==
    JObj([name |-> Str2("D", "e"), regular_price |-> JNum(15), permalink |-> Str2("u", "3"),
          stock_status |-> Str2("n", "o"), manage_stock |-> JBool(TRUE),
          stock_quantity |-> JNum(3), attributes |-> JNull])
RUncountable ==
    JObj([name |-> Str2("N", "o"), stock_status |-> Str2("n", "o"),
          manage_stock |-> JBool(TRUE), stock_quantity |-> JStr(<<"3">>)])
RBadBrand ==
    JObj([name |-> Str2("B", "a"), price |-> JStr(<<"0">>), stock_status |-> InStock,
          attributes |-> JList(<<BrandAttr(JList(<<JNum(5)>>))>>)])
RBadName == JObj([name |-> JNum(5), stock_status |-> InStock])

Records == {RGood, ROut, RManaged, RBadBrand, RBadName, Hi}
StockRecords == {RGood, ROut, RManaged, RUncountable}

ErrorBody == JObj([code |-> Str2("n", "o")])

HttpResponses(records) ==
    {Ok([status |-> 404, body |-> Encoded(ErrorBody)]), Ok([status |-> 500, body |-> Malformed]),
     Ok([status |-> 200, body |-> Malformed])}
    \cup {Ok([status |-> 200, body |-> Encoded(v)]) : v \in {JNull, ErrorBody}}
    \cup {Ok([status |-> 200, body |-> Encoded(JList(l))]) : l \in SeqsUpTo(records, MaxItems)}

\* What requests.get may do.
CatalogResponses == {Raise} \cup HttpResponses(Records)

SmallCatalogResponses ==
    {Raise} \cup {Ok([status |-> 200, body |-> Encoded(JList(<<r>>))]) : r \in {RGood, ROut}}

----------------------------------------------------------------------------
(* The webhook and the handler, one instance per inbound message.          *)

VARIABLES
    client,     \* the module's client is set (OPENAI_API_KEY and the SDK present)
    pc,         \* where each message's handling stands
    text,       \* on_message's text
    plan,       \* on_message's plan, by frame
    inferReqs,  \* the inference requests issued for each message
    inferResps, \* what came back for them
    catReqs,    \* the catalog requests issued for each message
    catResps,   \* what came back for them
    outbox,     \* the texts passed to msg.answer for each message
    exc,        \* where an exception was raised: "none", "on_message", "answer"
    http,       \* the webhook's response: "none", "ok" ({"ok": True}), "error"
    log,        \* the order of each message's external calls
    unit        \* a direct call of one function: its arguments and result

vars == <<client, pc, text, plan, inferReqs, inferResps, catReqs, catResps, outbox, exc, http,
          log, unit>>

NoPlan == JNull
NoUnit == [fn |-> "none"]

\* One module-level slot in place of a frame per call.
SharedFrame(h) == 1

\* The frame holding the locals of message h's on_message call.
Frame(h) == h

HandlerInit ==
    /\ client \in BOOLEAN
    /\ pc = [h \in Msgs |-> "idle"]
    /\ text = [h \in Msgs |-> <<>>]
    /\ plan = [h \in Msgs |-> NoPlan]
    /\ inferReqs = [h \in Msgs |-> <<>>]
    /\ inferResps = [h \in Msgs |-> <<>>]
    /\ catReqs = [h \in Msgs |-> <<>>]
    /\ catResps = [h \in Msgs |-> <<>>]
    /\ outbox = [h \in Msgs |-> <<>>]
    /\ exc = [h \in Msgs |-> "none"]
    /\ http = [h \in Msgs |-> "none"]
    /\ log = [h \in Msgs |-> <<>>]

Init == HandlerInit /\ unit = NoUnit

\* An exception leaves on_message: feed_update passes it on and
\* telegram_webhook has no handler, so the request fails.
Fails(h, where, lg) ==
    /\ pc' = [pc EXCEPT ![h] = "error"]
    /\ exc' = [exc EXCEPT ![h] = where]
    /\ http' = [http EXCEPT ![h] = "error"]
    /\ log' = [log EXCEPT ![h] = lg]

\* on_message passes final to msg.answer and awaits it.
Answers(h, final, lg) ==
    /\ pc' = [pc EXCEPT ![h] = "send"]
    /\ outbox' = [outbox EXCEPT ![h] = Append(@, final)]
    /\ log' = [log EXCEPT ![h] = Append(lg, "send")]
    /\ UNCHANGED <<exc, http>>

\* on_message from the return of call_gpt to its next external call.
AfterPlan(h, p, lg) ==
    /\ plan' = [plan EXCEPT ![Frame(h)] = p]
    /\ IF FirstPart(p).exc
       THEN Fails(h, "on_message", lg) /\ UNCHANGED <<catReqs, outbox>>
       ELSE IF ~WantsSearch(p)
       THEN Answers(h, FinalText(<<FirstPart(p).val>>), lg) /\ UNCHANGED catReqs
       ELSE LET params == SearchParams(CriteriaOf(p), RESULTS_LIMIT)
            IN IF params.exc
               THEN Fails(h, "on_message", lg) /\ UNCHANGED <<catReqs, outbox>>
               ELSE /\ pc' = [pc EXCEPT ![h] = "catalog"]
                    /\ catReqs' = [catReqs EXCEPT ![h] = Append(@, params.val)]
                    /\ log' = [log EXCEPT ![h] = Append(lg, "catalog_request")]
                    /\ UNCHANGED <<outbox, exc, http>>

\* telegram_webhook takes an update whose message has text t (None when it
\* has none); on_message starts and calls call_gpt, which returns at once
\* without a client and otherwise issues the inference request.
Receive(h, texts) ==
    \E t \in texts :
        /\ pc[h] = "idle"
        /\ text' = [text EXCEPT ![h] = PyOr(t, EmptyStr).s]
        /\ IF client
           THEN /\ pc' = [pc EXCEPT ![h] = "inference"]
                /\ inferReqs' = [inferReqs EXCEPT ![h] =
                                    Append(@, [system |-> "SYSTEM_PROMPT",
                                               user |-> PyOr(t, EmptyStr).s])]
                /\ log' = [log EXCEPT ![h] = Append(@, "inference_request")]
                /\ UNCHANGED <<plan, catReqs, outbox, exc, http>>
           ELSE /\ AfterPlan(h, call_gpt(FALSE, Raise), log[h])
                /\ UNCHANGED inferReqs
        /\ UNCHANGED <<client, inferResps, catResps, unit>>

\* client.responses.create returns or raises; call_gpt returns the plan.
InferenceDone(h, creations) ==
    \E c \in creations :
        /\ pc[h] = "inference"
        /\ inferResps' = [inferResps EXCEPT ![h] = Append(@, c)]
        /\ AfterPlan(h, call_gpt(client, c), Append(log[h], "inference_response"))
        /\ UNCHANGED <<client, text, inferReqs, catResps, unit>>

\* requests.get returns or raises; search_products returns and on_message
\* composes the reply.
CatalogDone(h, responses) ==
    \E g \in responses :
        LET lg == Append(log[h], "catalog_response")
            products == SearchResult(RESULTS_LIMIT, wc_get(g))
            block == IF products.exc THEN Raise ELSE ResultBlock(products.val)
        IN /\ pc[h] = "catalog"
           /\ catResps' = [catResps EXCEPT ![h] = Append(@, g)]
           /\ IF block.exc
              THEN Fails(h, "on_message", lg) /\ UNCHANGED outbox
              ELSE Answers(h, FinalText(<<FirstPart(plan[Frame(h)]).val, block.val>>), lg)
           /\ UNCHANGED <<client, text, plan, inferReqs, inferResps, catReqs, unit>>

\* msg.answer returns, and telegram_webhook answers {"ok": True}; or
\* msg.answer raises (the Bot API refuses the message, no connection).
SendDone(h) ==
    /\ pc[h] = "send"
    /\ \/ /\ pc' = [pc EXCEPT ![h] = "done"]
          /\ http' = [http EXCEPT ![h] = "ok"]
          /\ UNCHANGED <<exc, log>>
       \/ Fails(h, "answer", log[h])
    /\ UNCHANGED <<client, text, plan, inferReqs, inferResps, catReqs, catResps, outbox, unit>>

Next ==
    \/ Receive(1, Texts)
    \/ InferenceDone(1, Creations)
    \/ CatalogDone(1, CatalogResponses)
    \/ SendDone(1)

Spec == Init /\ [][Next]_vars

NextConcurrent ==
    \E h \in Msgs :
        \/ Receive(h, Texts)
        \/ InferenceDone(h, SmallCreations)
        \/ CatalogDone(h, SmallCatalogResponses)
        \/ SendDone(h)

SpecConcurrent == Init /\ [][NextConcurrent]_vars

----------------------------------------------------------------------------
(* Direct calls of call_gpt, search_products and format_products.          *)

LimitSpan == 2
Limits == (0 - LimitSpan)..(PerPageMax + LimitSpan)

AttrVals ==
    {JNull, JNum(7), Hi, EmptyObj, JList(<<JNum(1)>>), JList(<<JObj([name |-> JNum(5)])>>),
     JList(<<JObj([name |-> JStr(<<"b", "r", "a", "n", "d">>)])>>),
     JList(<<BrandAttr(JList(<<>>))>>), JList(<<BrandAttr(JList(<<JNum(5)>>))>>),
     JList(<<BrandAttr(JList(<<Str2("A", "c")>>))>>)}

AttrRecords ==
    {JObj([name |-> Str2("A", "b"), price |-> JStr(<<"9", "5">>), permalink |-> Str2("u", "1"),
           sku |-> Str2("A", "1")] @@ a) : a \in Opt("attributes", AttrVals)}

PlanInit ==
    /\ HandlerInit
    /\ unit \in {[fn |-> "call_gpt", user_text |-> PyOr(t, EmptyStr).s, created |-> c,
                  done |-> FALSE, result |-> NoPlan] : t \in Texts, c \in Creations}

SearchInit ==
    /\ HandlerInit
    /\ unit \in {[fn |-> "search_products", criteria |-> c, limit |-> n, got |-> g,
                  done |-> FALSE, result |-> Raise] :
                    c \in {EmptyObj, PhoneQuery, Phone}, n \in Limits,
                    g \in {Raise} \cup HttpResponses(StockRecords)}

FormatInit ==
    /\ HandlerInit
    /\ unit \in {[fn |-> "format_products", products |-> l, done |-> FALSE, result |-> Raise] :
                    l \in SeqsUpTo(AttrRecords, MaxItems)}

Untouched ==
    UNCHANGED <<client, pc, text, plan, inferReqs, inferResps, catReqs, catResps, outbox, exc,
                http, log>>

RunCallGpt ==
    /\ unit.fn = "call_gpt" /\ ~unit.done
    /\ unit' = [unit EXCEPT !.done = TRUE, !.result = call_gpt(client, unit.created)]
    /\ Untouched

RunSearchProducts ==
    /\ unit.fn = "search_products" /\ ~unit.done
    /\ unit' = [unit EXCEPT !.done = TRUE,
                            !.result = search_products(unit.criteria, unit.limit, unit.got)]
    /\ Untouched

RunFormatProducts ==
    /\ unit.fn = "format_products" /\ ~unit.done
    /\ unit' = [unit EXCEPT !.done = TRUE, !.result = format_products(unit.products)]
    /\ Untouched

SpecPlan == PlanInit /\ [][RunCallGpt]_vars
SpecSearch == SearchInit /\ [][RunSearchProducts]_vars
SpecFormat == FormatInit /\ [][RunFormatProducts]_vars

----------------------------------------------------------------------------
(* The claims.                                                             *)

Finished(h) == pc[h] \in {"done", "error"}
ActionOf(h) == Get(plan[h], "action", JNull)
Contains(str, glyph) == \E i \in 1..Len(str) : str[i] = glyph
Count(str, glyph) == Cardinality({i \in 1..Len(str) : str[i] = glyph})
BlankLine == <<"\n", "\n">>

\* The in-stock predicate as the specification words it.
InStockPredicate(p) ==
    \/ Get(p, "stock_status", JNull) = InStock
    \/ /\ Get(p, "manage_stock", JNull) = JBool(TRUE)
       /\ Get(p, "stock_quantity", JNull).t = "num"
       /\ Get(p, "stock_quantity", JNull).n > 0

\* The backend call fails: no connection, a timeout, a non-success status.
BackendCallFails(g) == g.exc \/ g.val.status >= HttpErrorFrom

\* The backend answers with a list of records, none of them in stock.
NoneInStock(g) ==
    /\ ~BackendCallFails(g)
    /\ g.val.body.valid
    /\ IsList(g.val.body.value)
    /\ \A i \in 1..Len(g.val.body.value.l) :
          /\ IsObj(g.val.body.value.l[i])
          /\ ~InStockPredicate(g.val.body.value.l[i])

\* C1: the message handler never raises, and every reply it produces is a
\* non-empty string, whatever the planner and the catalog return.
OnMessageNeverRaises ==
    \A h \in Msgs :
        /\ exc[h] # "on_message"
        /\ \A i \in DOMAIN outbox[h] : outbox[h][i] # <<>>

\* C2: call_gpt always returns an object whose reply is a non-empty string
\* and whose action is 'none' or 'search_products'.
PlanAlwaysValid ==
    (unit.fn = "call_gpt" /\ unit.done) =>
        /\ IsObj(unit.result)
        /\ "reply" \in DOMAIN unit.result.o
        /\ IsStr(unit.result.o.reply)
        /\ unit.result.o.reply.s # <<>>
        /\ "action" \in DOMAIN unit.result.o
        /\ unit.result.o.action \in {ActionNone, ActionSearch}

\* C3: for every criteria, limit and backend list, search_products returns
\* at most min(max(limit,1),10) records, all of them in stock, in the
\* backend's order.
SearchBoundedInStock ==
    (unit.fn = "search_products" /\ unit.done /\ ~unit.result.exc) =>
        /\ Len(unit.result.val) <= Min(Max(unit.limit, 1), PerPageMax)
        /\ \A i \in 1..Len(unit.result.val) : InStockPredicate(unit.result.val[i])
        /\ wc_get(unit.got).exc \/
             unit.result.val =
                 Prefix(SelectSeq(wc_get(unit.got).val.l, InStockPredicate),
                        Len(unit.result.val))

\* C4: whenever the backend call search_products makes fails, it returns
\* an empty sequence and raises nothing.
FetchFailureGivesEmpty ==
    (/\ unit.fn = "search_products" /\ unit.done
     /\ IsObj(unit.criteria)
     /\ BackendCallFails(unit.got)) => unit.result = Ok(<<>>)

FetchFailureWitness ==
    /\ unit.fn = "search_products" /\ unit.done
    /\ unit.criteria = PhoneQuery
    /\ ~unit.got.exc /\ unit.got.val.status = 500
    /\ unit.result = Ok(<<>>)

\* C5: the webhook answers {ok: true} for every update, whatever happens
\* in planning, catalog querying, formatting or sending.
WebhookAlwaysAcknowledges == \A h \in Msgs : Finished(h) => http[h] = "ok"

\* C6: format_products never raises on a non-empty list, however malformed
\* the records' attributes, and renders one block per record.
FormatNeverRaises ==
    (unit.fn = "format_products" /\ unit.done /\ unit.products # <<>>) =>
        /\ ~unit.result.exc
        /\ Count(unit.result.val, Bullet) = Len(unit.products)

\* C7, as claimed: when the plan's action is not 'search_products', no
\* catalog request is issued and the reply sent is exactly the planner's
\* trimmed reply.
NoSearchReplyIsPlannerReply ==
    \A h \in Msgs :
        (plan[h] # NoPlan /\ ActionOf(h) # ActionSearch) =>
            /\ catReqs[h] = <<>>
            /\ \A i \in DOMAIN outbox[h] :
                  outbox[h][i] = Strip(PyOr(Get(plan[h], "reply", EmptyStr), EmptyStr).s)

\* C7, amended: when the plan's action is not 'search_products', no catalog
\* request is issued and the reply sent is exactly the planner's trimmed
\* reply, or the fixed acknowledgment when that trimmed reply is empty.
NoSearchReplyOrAck ==
    \A h \in Msgs :
        (plan[h] # NoPlan /\ ActionOf(h) # ActionSearch) =>
            /\ catReqs[h] = <<>>
            /\ \A i \in DOMAIN outbox[h] :
                  LET trimmed == Strip(PyOr(Get(plan[h], "reply", EmptyStr), EmptyStr).s)
                  IN outbox[h][i] = IF trimmed = <<>> THEN FallbackAck ELSE trimmed

NoSearchWitness ==
    \E h \in Msgs :
        /\ pc[h] = "done"
        /\ plan[h] = JObj([reply |-> JStr(<<" ", "o", "k", "\n">>), action |-> ActionNone])
        /\ catReqs[h] = <<>>
        /\ outbox[h] = <<(<<"o", "k">>)>>

\* C8, as claimed: when the plan's action is 'search_products' and the
\* backend is unreachable or yields no in-stock record, the reply sent is
\* the planner's reply, a blank line, then the fixed prompt, with no
\* results header and no product block.
EmptySearchReplyIsReplyThenPrompt ==
    \A h \in Msgs :
        (/\ plan[h] # NoPlan /\ ActionOf(h) = ActionSearch
         /\ catResps[h] # <<>>
         /\ BackendCallFails(catResps[h][1]) \/ NoneInStock(catResps[h][1])) =>
            \A i \in DOMAIN outbox[h] :
                /\ outbox[h][i] =
                       Strip(PyOr(Get(plan[h], "reply", EmptyStr), EmptyStr).s)
                       \o BlankLine \o NothingMatched
                /\ ~Contains(outbox[h][i], "[available-suggestions]")
                /\ ~Contains(outbox[h][i], Bullet)

\* C8, amended: in that case the reply sent is the planner's trimmed reply,
\* a blank line, then the fixed prompt, or the prompt alone when the
\* trimmed reply is empty; it holds no results header and no product block.
EmptySearchReplyOrPromptAlone ==
    \A h \in Msgs :
        (/\ plan[h] # NoPlan /\ ActionOf(h) = ActionSearch
         /\ catResps[h] # <<>>
         /\ BackendCallFails(catResps[h][1]) \/ NoneInStock(catResps[h][1])) =>
            \A i \in DOMAIN outbox[h] :
                LET trimmed == Strip(PyOr(Get(plan[h], "reply", EmptyStr), EmptyStr).s)
                IN /\ outbox[h][i] = IF trimmed = <<>> THEN NothingMatched
                                     ELSE trimmed \o BlankLine \o NothingMatched
                   /\ ~Contains(outbox[h][i], "[available-suggestions]")
                   /\ ~Contains(outbox[h][i], Bullet)

EmptySearchWitness ==
    \E h \in Msgs :
        /\ pc[h] = "done"
        /\ ActionOf(h) = ActionSearch
        /\ catResps[h] = <<Raise>>
        /\ outbox[h] = <<(<<"o", "k">> \o BlankLine \o NothingMatched)>>

\* What message h's handler does when it runs alone on h's own text and the
\* responses to h's own requests.
OwnReply(h) ==
    on_message(client,
               IF inferResps[h] = <<>> THEN Raise ELSE inferResps[h][1],
               IF catResps[h] = <<>> THEN Raise ELSE catResps[h][1])

\* C9: with messages handled concurrently in any interleaving, each
\* message's requests carry its own text and its reply is the one its
\* handler gives alone on the responses to its own requests.
IsolatedReplies ==
    \A h \in Msgs :
        /\ \A i \in DOMAIN inferReqs[h] : inferReqs[h][i].user = text[h]
        /\ pc[h] \in {"idle", "inference", "catalog"} => outbox[h] = <<>>
        /\ pc[h] \in {"send", "done", "error"} =>
              IF OwnReply(h).exc
              THEN outbox[h] = <<>> /\ exc[h] = "on_message"
              ELSE outbox[h] = <<OwnReply(h).val>>

ConcurrentWitness ==
    /\ pc[1] = "send" /\ pc[2] = "catalog"
    /\ catResps[1] # <<>>
    /\ plan[1] = SearchPlan /\ plan[2] = SearchPlan
    /\ text[1] # text[2]

IsPrefixOf(a, b) == Len(a) <= Len(b) /\ SubSeq(b, 1, Len(a)) = a

CallOrders ==
    {<<"send">>,
     <<"inference_request", "inference_response", "send">>,
     <<"inference_request", "inference_response", "catalog_request", "catalog_response",
       "send">>}

\* C10: one message's external calls come in a fixed order with no retry:
\* at most one inference request, then at most one catalog request, made
\* only when the plan's action is 'search_products', then exactly one
\* outbound reply.
FixedOrderExactlyOneReply ==
    \A h \in Msgs :
        /\ \E o \in CallOrders : IsPrefixOf(log[h], o)
        /\ catReqs[h] # <<>> => ActionOf(h) = ActionSearch
        /\ Finished(h) => Len(outbox[h]) = 1

====
